---- MODULE Spec2Model ----
(***************************************************************************)
(* LLMPctxAgent (src/src/tau2/agent/llm_pctx_agent.py): the tool-call loop *)
(* of generate_next_message, the tracer _track_pctx_tool.tracked and the   *)
(* dispatcher _handle_pctx_tool_call.                                      *)
(*                                                                         *)
(* Strings are sequences of tokens, so that json.dumps and the f-string    *)
(* "Error: {e}" are computed and not taken as the identity.                *)
(***************************************************************************)
EXTENDS Integers, Sequences, FiniteSets, TLC

\* ---------------------------------------------------------------- bounds
\* replies the base mechanism produces in one run
MaxReplies == 3
\* ToolCalls one reply may carry
MaxCalls == 2
\* ToolCall ids the model hands out in one run
MaxCallIds == 2
\* traced domain calls (uuid4 draws) in one run
MaxUuid == 2

\* ------------------------------------------------------- strings, tokens
Quote == "\""
Backslash == "\\"

\* the exception descriptions str(e) a domain function may raise with
DomainErrs == { <<"not found">>, <<"bad ", Quote, "id", Quote>> }

\* str(KeyError(name)) is repr(name)
KeyErrorStr(name) == <<"'", name, "'">>
\* str(TypeError) of a callable given keyword arguments it does not take
TypeErrorStr(name) == <<name, "() got an unexpected keyword argument">>
\* str(e) of an error raised under run_until_complete
BridgeErrorStr == <<"connection ", Quote, "refused", Quote>>

\* f"Error: {e}"
ErrorStr(e) == <<"Error: ">> \o e

RECURSIVE JsonEscape(_)
JsonEscape(s) ==
    IF s = <<>> THEN <<>>
    ELSE (IF Head(s) \in {Quote, Backslash} THEN <<Backslash, Head(s)>>
          ELSE <<Head(s)>>) \o JsonEscape(Tail(s))

\* json.dumps of a str
json_dumps(s) == <<Quote>> \o JsonEscape(s) \o <<Quote>>

RECURSIVE JsonUnescape(_)
JsonUnescape(s) ==
    IF s = <<>> THEN <<>>
    ELSE IF Head(s) = Backslash /\ Len(s) > 1
         THEN <<s[2]>> \o JsonUnescape(Tail(Tail(s)))
         ELSE <<Head(s)>> \o JsonUnescape(Tail(s))

\* json.loads of the text of a JSON string
json_loads(s) ==
    IF Len(s) >= 2 /\ s[1] = Quote /\ s[Len(s)] = Quote
    THEN JsonUnescape(SubSeq(s, 2, Len(s) - 1))
    ELSE <<"?">>

\* Environment.to_json_str: a str goes through as it is
to_json_str(result) == result

\* s contains t as a contiguous run of tokens
Contains(s, t) ==
    \E i \in 1..(Len(s) - Len(t) + 1) : SubSeq(s, i, i + Len(t) - 1) = t

\* --------------------------------------------------------------- messages
\* the names _get_sync_code_mode_fns registers
code_mode_fns == {"pctx_list_functions", "pctx_get_function_details", "pctx_execute"}
\* the names a reply of the model may ask for: a registered one and one that is
\* not (the other registered names are dispatched as pctx_execute is, and no
\* traced function runs under them)
ModelNames == {"pctx_execute", "pctx_unknown"}
\* the domain functions wrapped by _track_pctx_tool
EnvTools == {"get_order"}

NoMessage == [kind |-> "None"]

ToolCall(id, name, arguments) == [id |-> id, name |-> name, arguments |-> arguments]

\* the arguments of a call the model asks for; whether the callable takes them
\* is the choice between HandleBadArguments and HandleInvoke
ModelArguments == [input |-> "text"]
\* the keyword arguments the backend calls a traced domain function with
Kwargs == {[order_id |-> "W1"], [order_id |-> "W2"]}
\* the domain function raises for these arguments: the environment's data holds
\* order W1 and no other
FnRaises(fn, kwargs) == kwargs.order_id # "W1"
\* the value a domain function returns for its arguments
FnValue(fn, kwargs) == <<"result ", kwargs.order_id>>

ToolMessage(id, content, error) ==
    [kind |-> "ToolMessage", role |-> "tool", id |-> id,
     content |-> content, error |-> error]

MultiToolMessage(tool_messages) ==
    [kind |-> "MultiToolMessage", role |-> "tool", tool_messages |-> tool_messages]

AssistantMessage(content, tool_calls) ==
    [kind |-> "AssistantMessage", role |-> "assistant",
     content |-> content, tool_calls |-> tool_calls]

UserMessage == [kind |-> "UserMessage", role |-> "user"]

\* AssistantMessage.is_tool_call
is_tool_call(m) == m.kind = "AssistantMessage" /\ Len(m.tool_calls) > 0

Firsts(pairs) == [i \in DOMAIN pairs |-> pairs[i][1]]
Seconds(pairs) == [i \in DOMAIN pairs |-> pairs[i][2]]

VARIABLES
    pc,                         \* position in generate_next_message
    internal_messages,          \* the trajectory store
    current_execute_callbacks,  \* the invocation trace buffer
    state,                      \* LLMAgentState.messages of the base mechanism
    msg,                        \* the reply being handled
    iteration,                  \* local counter of the while loop
    expanded_assistant_msg, tool_msgs, execute_tool_msgs, next_msg,
    idx,                        \* position of the for loop in msg.tool_calls
    returned,                   \* the message generate_next_message returned
    nextReply, nextCallId, nextUuid,
    submitted,                  \* messages handed to the base mechanism by this call
    turnStart,                  \* length of the store when the iteration began
    dispatched,                 \* this iteration's dispatches: id, raised, traced ids
    calls_made,                 \* every call of a traced function so far
    obtained,                   \* what a caller of get_internal_messages holds
    taken,                      \* the store's content when that caller got it
    PCTX_MODE,                  \* os.environ["PCTX_MODE"]
    event_loop,                 \* asyncio's current event loop of each thread, 0 for None
    agent,                      \* the fields of each LLMPctxAgent instance
    loops,                      \* the event loop objects made by asyncio.new_event_loop
    lists,                      \* the list objects the instances made
    bridge_ended,               \* the binding before and after the last _run_in_loop
    trace_owner,                \* the instance whose wrapper made the n-th traced pair
    del_raised                  \* whether some __del__ raised

\* one instance driven through generate_next_message
turn_vars == <<pc, internal_messages, current_execute_callbacks, state, msg, iteration,
               expanded_assistant_msg, tool_msgs, execute_tool_msgs, next_msg, idx,
               returned, nextReply, submitted, turnStart, dispatched, calls_made>>
\* the accessor's caller
reader_vars == <<obtained, taken>>
\* several instances in one process
process_vars == <<PCTX_MODE, event_loop, agent, loops, lists, bridge_ended,
                  trace_owner, del_raised>>

vars == <<turn_vars, nextCallId, nextUuid, reader_vars, process_vars>>

locals == <<expanded_assistant_msg, tool_msgs, execute_tool_msgs, next_msg, idx>>
counters == <<nextReply, nextCallId, nextUuid>>

\* two instances of LLMPctxAgent and the threads that call them
Agents == {"A", "B"}
Threads == {"t1", "t2"}

\* an instance before __init__
NoAgent ==
    [made |-> FALSE, loop |-> 0, callbacks |-> 0, messages |-> 0, mode |-> "none",
     fns |-> {}, dels |-> 0, bridge |-> "none", thread |-> "none", prior |-> 0,
     call |-> <<>>, resolved |-> {}]

\* no _run_in_loop has ended yet
NoBridge == [agent |-> "none", prior |-> 0, after |-> 0]

\* the ToolCall the for loop is at
pctx_tool_call == msg.tool_calls[idx]

Init ==
    /\ pc = "idle"
    /\ internal_messages = <<>>
    /\ current_execute_callbacks = <<>>
    /\ state = <<>>
    /\ msg = NoMessage
    /\ iteration = 0
    /\ expanded_assistant_msg = NoMessage
    /\ tool_msgs = <<>>
    /\ execute_tool_msgs = <<>>
    /\ next_msg = NoMessage
    /\ idx = 1
    /\ returned = NoMessage
    /\ nextReply = 1
    /\ nextCallId = 1
    /\ nextUuid = 1
    /\ submitted = <<>>
    /\ turnStart = 0
    /\ dispatched = <<>>
    /\ calls_made = <<>>
    /\ obtained = "nothing"
    /\ taken = <<>>
    /\ PCTX_MODE = "unset"
    /\ event_loop = [t \in Threads |-> 0]
    /\ agent = [a \in Agents |-> NoAgent]
    /\ loops = <<>>
    /\ lists = <<>>
    /\ bridge_ended = NoBridge
    /\ trace_owner = <<>>
    /\ del_raised = FALSE

\* ------------------------------------------------- the base mechanism
\* the messages LLMAgent.generate_next_message adds to state.messages for an input
Incoming(m) == IF m.kind = "MultiToolMessage" THEN m.tool_messages ELSE <<m>>

\* a reply of the model with k ToolCalls named by names, with fresh ids
Reply(k, names) ==
    AssistantMessage(nextReply,
        [i \in 1..k |-> ToolCall(<<"call", nextCallId + i - 1>>, names[i], ModelArguments)])

\* super().generate_next_message(message, state): threads state, returns a reply
BaseGenerate(message) ==
    /\ nextReply <= MaxReplies
    /\ \E k \in 0..MaxCalls :
          /\ k > 0 => (nextReply < MaxReplies /\ nextCallId + k - 1 <= MaxCallIds)
          /\ \E names \in [1..k -> ModelNames] :
                /\ msg' = Reply(k, names)
                /\ state' = state \o Incoming(message) \o <<Reply(k, names)>>
          /\ nextCallId' = nextCallId + k
    /\ nextReply' = nextReply + 1
    /\ submitted' = Append(IF pc = "idle" THEN <<>> ELSE submitted, message)


\* ------------------------------------------------- the invocation tracer
\* tracked(**kwargs), lines 66-93: the pair appended to the buffer, the value
\* returned, and whether the wrapper lets the exception out.  fn raises with
\* description desc when raises is true and returns FnValue otherwise.
tracked_Reraises(fn, tool_call_id, kwargs, raises, desc) ==
    [pair |-> <<ToolCall(tool_call_id, fn, kwargs),
                ToolMessage(tool_call_id, to_json_str(FnValue(fn, kwargs)), FALSE)>>,
     result |-> FnValue(fn, kwargs), raised |-> raises]

tracked_OneId(fn, tool_call_id, kwargs, raises, desc) ==
    LET result == IF raises THEN ErrorStr(desc) ELSE FnValue(fn, kwargs)
    IN  [pair |-> <<ToolCall(<<"uuid", 1>>, fn, kwargs),
                    ToolMessage(<<"uuid", 1>>, to_json_str(result), raises)>>,
         result |-> result, raised |-> FALSE]

tracked(fn, tool_call_id, kwargs, raises, desc) ==
    LET tool_call == ToolCall(tool_call_id, fn, kwargs)
        result    == IF raises THEN ErrorStr(desc) ELSE FnValue(fn, kwargs)
        error     == raises
        content   == to_json_str(result)
        tool_msg  == ToolMessage(tool_call_id, content, error)
    IN  [pair |-> <<tool_call, tool_msg>>, result |-> result, raised |-> FALSE]

\* ------------------------------------------------- _handle_pctx_tool_call
\* lines 102-119: outcome is what self.code_mode_fns[name](**arguments) did,
\* [raised |-> TRUE, value |-> str(e)] or [raised |-> FALSE, value |-> text];
\* cause says where the exception came from: the lookup, the arguments, the bridge
handle_pctx_tool_call_NoFlag(tool_call, outcome) ==
    ToolMessage(tool_call.id,
        json_dumps(IF outcome.raised THEN ErrorStr(outcome.value) ELSE outcome.value),
        FALSE)

handle_pctx_tool_call(tool_call, outcome) ==
    LET resp  == IF outcome.raised THEN ErrorStr(outcome.value) ELSE outcome.value
        error == outcome.raised
    IN  ToolMessage(tool_call.id, json_dumps(resp), error)

\* ------------------------------------------------- get_internal_messages
\* line 227: returns self.internal_messages, the list object and not a copy
get_internal_messages == "alias"

\* what a value the accessor gave reads as now
HeldValue == IF obtained = "alias" THEN internal_messages ELSE taken

\* ------------------------------------------------- generate_next_message
\* line 184
ClearedCallbacks(callbacks) == <<>>

ExpandToolCalls_NestedFirst(tool_calls, tool_call, callbacks) ==
    (tool_calls \o Firsts(callbacks)) \o <<tool_call>>

OriginalToolCalls_Extended(tool_calls, callbacks) == tool_calls \o Firsts(callbacks)

\* lines 178-179, 191-194: append and extend act on the list made at line 179
\* for the deep copy, so the list of the reply itself stays as it was
OriginalToolCalls(tool_calls, callbacks) == tool_calls

\* lines 191-194
ExpandToolCalls(tool_calls, tool_call, callbacks) ==
    Append(tool_calls, tool_call) \o Firsts(callbacks)

\* lines 195-197
ExtendExecuteToolMsgs(msgs, callbacks) == msgs \o Seconds(callbacks)

StoreTurn_NoNested(store, expanded, tmsgs, emsgs) == Append(store, expanded) \o tmsgs

StoreTurn_Nothing(store, expanded, tmsgs, emsgs) == store

\* lines 199-201
StoreTurn(store, expanded, tmsgs, emsgs) == Append(store, expanded) \o tmsgs \o emsgs

Package_FirstOnly(tmsgs) == tmsgs[1]

Package_AlwaysMulti(tmsgs) == MultiToolMessage(tmsgs)

\* lines 204-213
Package(tmsgs) == IF Len(tmsgs) > 1 THEN MultiToolMessage(tmsgs) ELSE tmsgs[1]

Generate_ClearsBuffer ==
    /\ pc = "idle"
    /\ BaseGenerate(UserMessage)
    /\ iteration' = 0
    /\ returned' = NoMessage
    /\ current_execute_callbacks' = <<>>
    /\ pc' = "loop"
    /\ UNCHANGED <<internal_messages, locals, nextUuid, turnStart, dispatched,
                   calls_made, reader_vars, process_vars>>

\* line 168: the incoming message goes to the base mechanism
Generate ==
    /\ pc = "idle"
    /\ BaseGenerate(UserMessage)
    /\ iteration' = 0
    /\ returned' = NoMessage
    /\ pc' = "loop"
    /\ UNCHANGED <<internal_messages, current_execute_callbacks, locals, nextUuid,
                   turnStart, dispatched, calls_made, reader_vars, process_vars>>

\* lines 172-182: the while test holds, the iteration's locals are set up
LoopEnter ==
    /\ pc = "loop"
    /\ is_tool_call(msg)
    /\ iteration' = iteration + 1
    /\ expanded_assistant_msg' = [msg EXCEPT !.tool_calls = <<>>]
    /\ tool_msgs' = <<>>
    /\ execute_tool_msgs' = <<>>
    /\ idx' = 1
    /\ turnStart' = Len(internal_messages)
    /\ dispatched' = <<>>
    /\ pc' = "for"
    /\ UNCHANGED <<internal_messages, current_execute_callbacks, state, msg, next_msg,
                   returned, counters, submitted, calls_made, reader_vars, process_vars>>

LoopExit_Capped ==
    /\ pc = "loop"
    /\ ~is_tool_call(msg) \/ iteration >= 1
    /\ returned' = msg
    /\ pc' = "idle"
    /\ UNCHANGED <<internal_messages, current_execute_callbacks, state, msg, iteration,
                   locals, counters, submitted, turnStart, dispatched, calls_made,
                   reader_vars, process_vars>>

LoopExit_Stores ==
    /\ pc = "loop"
    /\ ~is_tool_call(msg)
    /\ returned' = msg
    /\ internal_messages' = Append(internal_messages, msg)
    /\ pc' = "idle"
    /\ UNCHANGED <<current_execute_callbacks, state, msg, iteration,
                   locals, counters, submitted, turnStart, dispatched, calls_made, reader_vars, process_vars>>

\* lines 172, 219-224: the while test fails, msg is returned
LoopExit ==
    /\ pc = "loop"
    /\ ~is_tool_call(msg)
    /\ returned' = msg
    /\ pc' = "idle"
    /\ UNCHANGED <<internal_messages, current_execute_callbacks, state, msg, iteration,
                   locals, counters, submitted, turnStart, dispatched, calls_made, reader_vars, process_vars>>

\* lines 183-186: the next ToolCall is taken and the buffer cleared
ClearBuffer ==
    /\ pc = "for"
    /\ idx <= Len(msg.tool_calls)
    /\ current_execute_callbacks' = ClearedCallbacks(current_execute_callbacks)
    /\ dispatched' = Append(dispatched,
                        [id |-> pctx_tool_call.id, raised |-> FALSE, desc |-> <<>>,
                         cause |-> "none", traced |-> <<>>])
    /\ pc' = "handle"
    /\ UNCHANGED <<internal_messages, state, msg, iteration, locals, returned, counters,
                   submitted, turnStart, calls_made, reader_vars, process_vars>>

\* lines 187-189 once the callable's outcome is known
Handled(outcome) ==
    /\ tool_msgs' = Append(tool_msgs, handle_pctx_tool_call(pctx_tool_call, outcome))
    /\ dispatched' = [dispatched EXCEPT
                          ![Len(dispatched)].raised = outcome.raised,
                          ![Len(dispatched)].cause = outcome.cause,
                          ![Len(dispatched)].desc =
                              IF outcome.raised THEN outcome.value ELSE <<>>]
    /\ pc' = "record"
    /\ UNCHANGED <<internal_messages, current_execute_callbacks, state, msg, iteration,
                   expanded_assistant_msg, execute_tool_msgs, next_msg, idx, returned,
                   counters, submitted, turnStart, calls_made, reader_vars, process_vars>>

\* line 103: self.code_mode_fns[tool_call.name] raises KeyError
HandleUnknownName ==
    /\ pc = "handle"
    /\ pctx_tool_call.name \notin code_mode_fns
    /\ Handled([raised |-> TRUE, value |-> KeyErrorStr(pctx_tool_call.name),
                cause |-> "lookup"])

\* line 103: the callable rejects **tool_call.arguments with TypeError
HandleBadArguments ==
    /\ pc = "handle"
    /\ pctx_tool_call.name \in code_mode_fns
    /\ Handled([raised |-> TRUE, value |-> TypeErrorStr(pctx_tool_call.name),
                cause |-> "arguments"])

\* line 103: the callable is entered and blocks in _run_in_loop
HandleInvoke ==
    /\ pc = "handle"
    /\ pctx_tool_call.name \in code_mode_fns
    /\ pc' = "call"
    /\ UNCHANGED <<internal_messages, current_execute_callbacks, state, msg, iteration,
                   locals, returned, counters, submitted, turnStart, dispatched,
                   calls_made, reader_vars, process_vars>>

\* lines 64-93: the backend calls a traced domain function while pctx.execute runs
Tracked ==
    /\ pc = "call"
    /\ pctx_tool_call.name = "pctx_execute"
    /\ nextUuid <= MaxUuid
    /\ \E fn \in EnvTools, kwargs \in Kwargs, desc \in DomainErrs :
          /\ ~FnRaises(fn, kwargs) => desc = CHOOSE d \in DomainErrs : TRUE
          /\ LET raises == FnRaises(fn, kwargs)
                 t == tracked(fn, <<"uuid", nextUuid>>, kwargs, raises, desc)
             IN  /\ current_execute_callbacks' =
                        IF t.raised THEN current_execute_callbacks
                        ELSE Append(current_execute_callbacks, t.pair)
                 /\ calls_made' = Append(calls_made,
                        [id |-> <<"uuid", nextUuid>>, fn |-> fn, kwargs |-> kwargs,
                         fn_raised |-> raises, desc |-> desc,
                         value |-> FnValue(fn, kwargs), raised |-> t.raised,
                         result |-> t.result, parent |-> pctx_tool_call.id])
    /\ nextUuid' = nextUuid + 1
    /\ dispatched' = [dispatched EXCEPT ![Len(dispatched)].traced =
                          Append(@, <<"uuid", nextUuid>>)]
    /\ UNCHANGED <<pc, internal_messages, state, msg, iteration, locals, returned,
                   nextReply, nextCallId, submitted, turnStart, reader_vars,
                   process_vars>>

\* lines 103, 133-145: the bridged call returns the backend's text
CallReturn ==
    /\ pc = "call"
    /\ Handled([raised |-> FALSE, value |-> <<"ok ", Quote, pctx_tool_call.name, Quote>>,
                cause |-> "none"])

\* lines 103-106, 121-127: the bridged call raises, caught by except Exception
CallRaise ==
    /\ pc = "call"
    /\ Handled([raised |-> TRUE, value |-> BridgeErrorStr, cause |-> "bridge"])

\* lines 191-197: the meta call and what the buffer holds are recorded
Record ==
    /\ pc = "record"
    /\ expanded_assistant_msg' =
          [expanded_assistant_msg EXCEPT !.tool_calls =
              ExpandToolCalls(@, pctx_tool_call, current_execute_callbacks)]
    /\ execute_tool_msgs' =
          ExtendExecuteToolMsgs(execute_tool_msgs, current_execute_callbacks)
    /\ msg' = [msg EXCEPT !.tool_calls =
                  OriginalToolCalls(@, current_execute_callbacks)]
    /\ state' = [state EXCEPT ![Len(state)].tool_calls =
                  OriginalToolCalls(@, current_execute_callbacks)]
    /\ idx' = idx + 1
    /\ pc' = "for"
    /\ UNCHANGED <<internal_messages, current_execute_callbacks, iteration,
                   tool_msgs, next_msg, returned, counters, submitted, turnStart,
                   dispatched, calls_made, reader_vars, process_vars>>

\* lines 199-213: the for loop is over, the turn is stored and packaged
EndFor ==
    /\ pc = "for"
    /\ idx > Len(msg.tool_calls)
    /\ internal_messages' =
          StoreTurn(internal_messages, expanded_assistant_msg, tool_msgs, execute_tool_msgs)
    /\ next_msg' = Package(tool_msgs)
    /\ pc' = "resubmit"
    /\ UNCHANGED <<current_execute_callbacks, state, msg, iteration,
                   expanded_assistant_msg, tool_msgs, execute_tool_msgs, idx, returned,
                   counters, submitted, turnStart, dispatched, calls_made, reader_vars, process_vars>>

\* line 217: the packaged message goes to the base mechanism
Resubmit ==
    /\ pc = "resubmit"
    /\ BaseGenerate(next_msg)
    /\ pc' = "loop"
    /\ UNCHANGED <<internal_messages, current_execute_callbacks, iteration, locals,
                   returned, nextUuid, turnStart, dispatched, calls_made, reader_vars, process_vars>>

\* line 217: the base mechanism raises; the exception leaves generate_next_message
\* and ends the run; msg and state are not assigned
ResubmitRaises ==
    /\ pc = "resubmit"
    /\ nextReply <= MaxReplies
    /\ pc' = "raised"
    /\ UNCHANGED <<internal_messages, current_execute_callbacks, state, msg, iteration, locals,
                   returned, counters, submitted, turnStart, dispatched, calls_made,
                   reader_vars, process_vars>>

\* lines 226-227: a caller between two calls of generate_next_message gets the
\* list object itself
GetInternalMessages ==
    /\ pc \in {"idle", "raised"}
    /\ obtained = "nothing"
    /\ obtained' = get_internal_messages
    /\ taken' = internal_messages
    /\ UNCHANGED <<turn_vars, nextCallId, nextUuid, process_vars>>

Next ==
    \/ Generate
    \/ LoopEnter
    \/ LoopExit
    \/ ClearBuffer
    \/ HandleUnknownName
    \/ HandleBadArguments
    \/ HandleInvoke
    \/ Tracked
    \/ CallReturn
    \/ CallRaise
    \/ Record
    \/ EndFor
    \/ Resubmit
    \/ ResubmitRaises

Spec == Init /\ [][Next]_vars

\* the loop is scheduled until it returns or raises
LiveSpec == Spec /\ WF_vars(Next)

ReaderNext ==
    \/ Next
    \/ GetInternalMessages

\* the turns of one instance and a caller of its accessor
ReaderSpec == Init /\ [][ReaderNext]_vars

\* ------------------------------------------- several instances, one process
\* teardowns of one instance
MaxTeardowns == 2

\* the operating mode the process-wide configuration selects
ReadMode == IF PCTX_MODE = "fs" THEN "filesystem" ELSE "discovery"

\* the meta-tools of filesystem mode: a shell command and execute
fs_mode_fns == {"pctx_execute_bash", "pctx_execute"}

\* the meta-tool surface of a mode; discovery is lines 149-153
get_sync_code_mode_fns(mode) ==
    IF mode = "filesystem" THEN fs_mode_fns ELSE code_mode_fns

init_SharedCallbacks(a) ==
    [NoAgent EXCEPT !.made = TRUE, !.messages = Len(lists) + 1, !.callbacks = 2,
                    !.loop = Len(loops) + 1, !.mode = ReadMode,
                    !.fns = get_sync_code_mode_fns(ReadMode)]

\* __init__, lines 34-51: the fields of the new instance; the two lists and the
\* event loop are new objects
init(a) ==
    [NoAgent EXCEPT !.made = TRUE,
                    !.messages = Len(lists) + 1,
                    !.callbacks = Len(lists) + 2,
                    !.loop = Len(loops) + 1,
                    !.mode = ReadMode,
                    !.fns = get_sync_code_mode_fns(ReadMode)]

ResolvedFns_Reread(a) == get_sync_code_mode_fns(ReadMode)

\* line 103: the mapping a dispatch looks the name up in
ResolvedFns(a) == agent[a].fns

RestoredLoop_Prior(prior) == prior

\* line 127: what the finally clause binds when the call ends
RestoredLoop(prior) == 0

del_NoGuard(loop) ==
    [loop EXCEPT !.closed = TRUE, !.closes = @ + 1]

\* __del__, lines 55-56, on the instance's event loop
del(loop) ==
    IF ~loop.closed THEN [loop EXCEPT !.closed = TRUE, !.closes = @ + 1] ELSE loop

\* the thread is inside a call on some instance
Busy(t) == \E b \in Agents : agent[b].bridge # "none" /\ agent[b].thread = t

\* lines 28-51
Construct(a) ==
    /\ ~agent[a].made
    /\ agent' = [agent EXCEPT ![a] = init(a)]
    /\ loops' = Append(loops, [closed |-> FALSE, closes |-> 0])
    /\ lists' = lists \o << <<>>, <<>> >>
    /\ UNCHANGED <<turn_vars, nextCallId, nextUuid, reader_vars, PCTX_MODE, event_loop,
                   bridge_ended, trace_owner, del_raised>>

\* src/modal_run.py line 47, or the variable being unset again
SetMode(v) ==
    /\ v # PCTX_MODE
    /\ PCTX_MODE' = v
    /\ UNCHANGED <<turn_vars, nextCallId, nextUuid, reader_vars, event_loop, agent,
                   loops, lists, bridge_ended, trace_owner, del_raised>>

\* other code of thread t calls asyncio.set_event_loop(x)
ExternalBind(t, x) ==
    /\ ~Busy(t)
    /\ x # event_loop[t]
    /\ event_loop' = [event_loop EXCEPT ![t] = x]
    /\ UNCHANGED <<turn_vars, nextCallId, nextUuid, reader_vars, PCTX_MODE, agent,
                   loops, lists, bridge_ended, trace_owner, del_raised>>

\* line 123 of a call of connect or disconnect (lines 155-163) on thread t
ConnectEnter(a, t) ==
    /\ agent[a].made
    /\ agent[a].bridge = "none"
    /\ ~Busy(t)
    /\ agent' = [agent EXCEPT ![a].bridge = "connect", ![a].thread = t,
                              ![a].prior = event_loop[t]]
    /\ event_loop' = [event_loop EXCEPT ![t] = agent[a].loop]
    /\ UNCHANGED <<turn_vars, nextCallId, nextUuid, reader_vars, PCTX_MODE, loops, lists,
                   bridge_ended, trace_owner, del_raised>>

\* lines 184, 103, 123: a dispatch of pctx_execute on thread t clears the
\* instance's buffer, resolves the name and enters _run_in_loop
DispatchEnter(a, t) ==
    /\ agent[a].made
    /\ agent[a].bridge = "none"
    /\ ~Busy(t)
    /\ nextCallId <= MaxCallIds
    /\ "pctx_execute" \in ResolvedFns(a)
    /\ lists' = [lists EXCEPT ![agent[a].callbacks] = ClearedCallbacks(@)]
    /\ agent' = [agent EXCEPT ![a].bridge = "dispatch", ![a].thread = t,
                              ![a].prior = event_loop[t],
                              ![a].call = <<"call", nextCallId>>,
                              ![a].resolved = ResolvedFns(a)]
    /\ event_loop' = [event_loop EXCEPT ![t] = agent[a].loop]
    /\ nextCallId' = nextCallId + 1
    /\ UNCHANGED <<turn_vars, nextUuid, reader_vars, PCTX_MODE, loops, bridge_ended,
                   trace_owner, del_raised>>

\* lines 64-93: the backend calls the wrapper this instance registered (line 44)
TrackedBy(a) ==
    /\ agent[a].bridge = "dispatch"
    /\ ~loops[agent[a].loop].closed
    /\ nextUuid <= MaxUuid
    /\ \E fn \in EnvTools, kwargs \in Kwargs :
          LET t == tracked(fn, <<"uuid", nextUuid>>, kwargs, FnRaises(fn, kwargs),
                           CHOOSE d \in DomainErrs : TRUE)
          IN  lists' = [lists EXCEPT ![agent[a].callbacks] = Append(@, t.pair)]
    /\ trace_owner' = Append(trace_owner, a)
    /\ nextUuid' = nextUuid + 1
    /\ UNCHANGED <<turn_vars, nextCallId, reader_vars, PCTX_MODE, event_loop, agent,
                   loops, bridge_ended, del_raised>>

\* lines 124-127: run_until_complete returns or raises, the finally clause runs
BridgeExit(a) ==
    /\ agent[a].bridge \in {"connect", "dispatch"}
    /\ event_loop' = [event_loop EXCEPT ![agent[a].thread] = RestoredLoop(agent[a].prior)]
    /\ bridge_ended' = [agent |-> a, prior |-> agent[a].prior,
                        after |-> RestoredLoop(agent[a].prior)]
    /\ agent' = [agent EXCEPT ![a].bridge =
                    IF agent[a].bridge = "dispatch" THEN "record" ELSE "none"]
    /\ UNCHANGED <<turn_vars, nextCallId, nextUuid, reader_vars, PCTX_MODE, loops, lists,
                   trace_owner, del_raised>>

\* lines 187-201 of a turn with this one ToolCall: the instance's store gets the
\* expanded message, the meta-tool's ToolMessage and the buffer's ToolMessages
RecordBy(a) ==
    /\ agent[a].bridge = "record"
    /\ lists' = [lists EXCEPT ![agent[a].messages] =
           StoreTurn(@,
               AssistantMessage(agent[a].call,
                   ExpandToolCalls(<<>>, ToolCall(agent[a].call, "pctx_execute", ModelArguments),
                                   lists[agent[a].callbacks])),
               <<handle_pctx_tool_call(ToolCall(agent[a].call, "pctx_execute", ModelArguments),
                     [raised |-> loops[agent[a].loop].closed, value |-> <<"ok">>])>>,
               ExtendExecuteToolMsgs(<<>>, lists[agent[a].callbacks]))]
    /\ agent' = [agent EXCEPT ![a].bridge = "none"]
    /\ UNCHANGED <<turn_vars, nextCallId, nextUuid, reader_vars, PCTX_MODE, event_loop,
                   loops, bridge_ended, trace_owner, del_raised>>

\* loop.close() raises RuntimeError on a loop that is running
CloseRaises(a) == agent[a].bridge \in {"connect", "dispatch"}

\* lines 53-56, called when no call on the instance is running
Del(a) ==
    /\ agent[a].made
    /\ agent[a].bridge = "none"
    /\ agent[a].dels < MaxTeardowns
    /\ loops' = [loops EXCEPT ![agent[a].loop] = del(@)]
    /\ del_raised' = (del_raised \/ (del(loops[agent[a].loop]).closes >
                                        loops[agent[a].loop].closes /\ CloseRaises(a)))
    /\ agent' = [agent EXCEPT ![a].dels = @ + 1]
    /\ UNCHANGED <<turn_vars, nextCallId, nextUuid, reader_vars, PCTX_MODE, event_loop,
                   lists, bridge_ended, trace_owner>>

\* the bridge alone: instances, other code binding loops, connect and disconnect
BridgeNext ==
    \/ \E a \in Agents : Construct(a)
    \/ \E t \in Threads, x \in {0} \cup DOMAIN loops : ExternalBind(t, x)
    \/ \E a \in Agents, t \in Threads : ConnectEnter(a, t)
    \/ \E a \in Agents : BridgeExit(a)

BridgeSpec == Init /\ [][BridgeNext]_vars

\* teardown: instances that connect, dispatch and are deleted
TeardownNext ==
    \/ \E a \in Agents : Construct(a)
    \/ \E a \in Agents : ConnectEnter(a, "t1")
    \/ \E a \in Agents : DispatchEnter(a, "t1")
    \/ \E a \in Agents : BridgeExit(a)
    \/ \E a \in Agents : RecordBy(a)
    \/ \E a \in Agents : Del(a)

TeardownSpec == Init /\ [][TeardownNext]_vars

\* two instances dispatching at once on two threads
ProcessNext ==
    \/ \E a \in Agents : Construct(a)
    \/ \E a \in Agents, t \in Threads : DispatchEnter(a, t)
    \/ \E a \in Agents : TrackedBy(a)
    \/ \E a \in Agents : BridgeExit(a)
    \/ \E a \in Agents : RecordBy(a)
    \/ \E a \in Agents : Del(a)

ProcessSpec == Init /\ [][ProcessNext]_vars

\* the mode: the configuration changes while instances are made and dispatch
ModeNext ==
    \/ \E v \in {"unset", "fs"} : SetMode(v)
    \/ \E a \in Agents : Construct(a)
    \/ \E a \in Agents : DispatchEnter(a, "t1")
    \/ \E a \in Agents : BridgeExit(a)
    \/ \E a \in Agents : RecordBy(a)

ModeSpec == Init /\ [][ModeNext]_vars


\* ------------------------------------------------------------- properties
\* positions of the store by kind
AssistantPositions ==
    {p \in DOMAIN internal_messages : internal_messages[p].kind = "AssistantMessage"}
ToolPositions ==
    {p \in DOMAIN internal_messages : internal_messages[p].kind = "ToolMessage"}
\* <<p, j>>: the j-th ToolCall listed by the assistant message at position p
CallSlots ==
    UNION {{<<p, j>> : j \in DOMAIN internal_messages[p].tool_calls} :
              p \in AssistantPositions}
CallAt(s) == internal_messages[s[1]].tool_calls[s[2]]

Ids(seq) == [i \in DOMAIN seq |-> seq[i].id]

\* ids the tracer made during the dispatches 1..i of this iteration
RECURSIVE TracedUpTo(_)
TracedUpTo(i) == IF i = 0 THEN <<>> ELSE TracedUpTo(i - 1) \o dispatched[i].traced

\* the order of ids the expansion is to have after the dispatches 1..i
RECURSIVE ExpectedIds(_)
ExpectedIds(i) ==
    IF i = 0 THEN <<>>
    ELSE (ExpectedIds(i - 1) \o <<msg.tool_calls[i].id>>) \o dispatched[i].traced

\* the entries the store gained in this iteration
TurnEntries == SubSeq(internal_messages, turnStart + 1, Len(internal_messages))
TurnToolMessages == SelectSeq(TurnEntries, LAMBDA e : e.kind = "ToolMessage")

\* C1: every ToolCall listed by an expanded assistant message of the store has
\* exactly one ToolMessage of the store with its id, and every ToolMessage of
\* the store has exactly one such ToolCall, meta and nested alike.
C1_CallsAndMessagesPaired ==
    /\ \A s \in CallSlots :
          Cardinality({q \in ToolPositions :
                          internal_messages[q].id = CallAt(s).id}) = 1
    /\ \A q \in ToolPositions :
          Cardinality({s \in CallSlots : CallAt(s).id = internal_messages[q].id}) = 1

C1_Witness ==
    /\ pc = "idle"
    /\ returned # NoMessage
    /\ \E s \in CallSlots : CallAt(s).id[1] = "uuid"
    /\ \E s \in CallSlots : CallAt(s).id[1] = "call"

\* C2: the trace buffer is empty right before every dispatch starts and empty
\* again right after the dispatch's nested pairs have been recorded, the last
\* dispatch of a turn included.
C2_BufferEmptyAroundDispatch ==
    /\ pc = "handle" => current_execute_callbacks = <<>>
    /\ (pc \in {"for", "resubmit"} /\ idx > 1) => current_execute_callbacks = <<>>

\* C3: a reply with k > 1 ToolCalls has one composite message submitted for it,
\* holding k ToolMessages with the ids of the reply's ToolCalls in order, and
\* the store gains k + n ToolMessages, n the traced calls of the k dispatches.
C3_CompositeForManyCalls ==
    LET k == Len(msg.tool_calls) IN
    /\ (pc = "resubmit" /\ k > 1) =>
          /\ next_msg.kind = "MultiToolMessage"
          /\ Len(next_msg.tool_messages) = k
          /\ Ids(next_msg.tool_messages) = Ids(msg.tool_calls)
          /\ \A i \in 1..k : next_msg.tool_messages[i].kind = "ToolMessage"
          /\ Len(TurnToolMessages) = k + Len(TracedUpTo(k))
          /\ Len(submitted) = iteration
    /\ (pc = "loop" /\ iteration >= 1) =>
          /\ Len(submitted) = iteration + 1
          /\ submitted[Len(submitted)] = next_msg

C3_Witness ==
    /\ pc = "resubmit"
    /\ Len(msg.tool_calls) > 1
    /\ Len(TracedUpTo(Len(msg.tool_calls))) >= 1

\* C4: what goes back to the base mechanism holds the meta-tool ToolMessages
\* only, one per original ToolCall and none of a nested call; with one ToolCall
\* the lone ToolMessage goes bare, not wrapped in a composite.
C4_OnlyMetaMessagesSubmitted ==
    LET k == Len(msg.tool_calls) IN
    /\ pc = "resubmit" =>
          /\ Ids(Incoming(next_msg)) = Ids(msg.tool_calls)
          /\ k = 1 => (next_msg.kind = "ToolMessage" /\ next_msg = tool_msgs[1])
          /\ \A i \in DOMAIN Incoming(next_msg) :
                /\ Incoming(next_msg)[i].kind = "ToolMessage"
                /\ \A c \in DOMAIN calls_made :
                      calls_made[c].id # Incoming(next_msg)[i].id
    /\ \A j \in DOMAIN submitted :
          submitted[j].kind # "UserMessage" =>
              \A i \in DOMAIN Incoming(submitted[j]) :
                  \A c \in DOMAIN calls_made :
                      calls_made[c].id # Incoming(submitted[j])[i].id

C4_Witness ==
    /\ pc = "resubmit"
    /\ Len(msg.tool_calls) = 1
    /\ next_msg.kind = "ToolMessage"
    /\ Len(execute_tool_msgs) >= 1

\* C5: the expanded assistant message lists meta call 1, the calls traced
\* during its dispatch in capture order, meta call 2, its traced calls, and so
\* on in the reply's order.
C5_ExpandedOrder ==
    /\ pc = "for" => Ids(expanded_assistant_msg.tool_calls) = ExpectedIds(idx - 1)
    /\ pc = "resubmit" =>
          /\ internal_messages[turnStart + 1].kind = "AssistantMessage"
          /\ internal_messages[turnStart + 1].content = msg.content
          /\ Ids(internal_messages[turnStart + 1].tool_calls) =
                ExpectedIds(Len(msg.tool_calls))

C5_Witness ==
    /\ pc = "resubmit"
    /\ Len(msg.tool_calls) = 2
    /\ Len(dispatched[1].traced) >= 1
    /\ Len(dispatched[2].traced) >= 1

\* C6: the ToolMessages a turn adds to the store are in the order of their
\* ToolCalls in the expanded assistant message: each meta-tool ToolMessage is
\* followed by the ToolMessages of its nested calls, then the next meta-tool's.
C6_StoreMessagesInCallOrder ==
    pc = "resubmit" =>
        Ids(TurnToolMessages) = Ids(internal_messages[turnStart + 1].tool_calls)

\* every ToolMessage the agent holds: buffer, iteration locals and store
HeldToolMessages ==
    {Seconds(current_execute_callbacks)[i] : i \in DOMAIN current_execute_callbacks}
    \cup {execute_tool_msgs[i] : i \in DOMAIN execute_tool_msgs}
    \cup {tool_msgs[i] : i \in DOMAIN tool_msgs}
    \cup {internal_messages[q] : q \in ToolPositions}

\* C7: when the first reply to an incoming message carries no ToolCalls,
\* generate_next_message returns that reply as the base mechanism gave it, with
\* no dispatch, and the store and the trace buffer stay as they were.
C7_TerminalReplyLeavesStore ==
    [][ /\ pc = "idle" =>
              /\ internal_messages' = internal_messages
              /\ current_execute_callbacks' = current_execute_callbacks
        /\ (pc = "loop" /\ iteration = 0 /\ ~is_tool_call(msg)) =>
              /\ pc' = "idle"
              /\ returned' = state[Len(state)]
              /\ internal_messages' = internal_messages
              /\ current_execute_callbacks' = current_execute_callbacks
              /\ dispatched' = dispatched
              /\ calls_made' = calls_made ]_vars

C7_Witness ==
    /\ pc = "idle"
    /\ iteration = 0
    /\ returned # NoMessage
    /\ returned = state[Len(state)]
    /\ internal_messages # <<>>
    /\ current_execute_callbacks # <<>>

\* C8: the store never holds the terminal assistant message that
\* generate_next_message returned: every assistant message of the store lists
\* at least one ToolCall and the returned message is not a stored entry.
C8_TerminalMessageNotStored ==
    /\ \A p \in AssistantPositions : Len(internal_messages[p].tool_calls) >= 1
    /\ returned # NoMessage =>
          /\ ~is_tool_call(returned)
          /\ \A p \in DOMAIN internal_messages :
                /\ internal_messages[p] # returned
                /\ p \in AssistantPositions =>
                      internal_messages[p].content # returned.content

C8_Witness ==
    /\ pc = "idle"
    /\ returned # NoMessage
    /\ iteration >= 1
    /\ AssistantPositions # {}

\* C9: when a domain function raises in a traced call, the tracer records a
\* ToolMessage with the error flag set whose content contains the exception's
\* description, the wrapper does not raise, and the ToolMessage of the
\* enclosing meta-tool call is still produced for that dispatch.
C9_DomainErrorRecorded ==
    \A c \in DOMAIN calls_made :
        calls_made[c].fn_raised =>
            /\ ~calls_made[c].raised
            /\ \E m \in HeldToolMessages :
                  /\ m.id = calls_made[c].id
                  /\ m.error
                  /\ Contains(m.content, calls_made[c].desc)
            /\ pc \in {"record", "for", "resubmit", "loop", "idle"} =>
                  \E m \in HeldToolMessages : m.id = calls_made[c].parent

C9_Witness ==
    /\ pc = "resubmit"
    /\ \E c \in DOMAIN calls_made :
          /\ calls_made[c].fn_raised
          /\ Contains(calls_made[c].desc, <<Quote>>)
          /\ \E i \in DOMAIN tool_msgs :
                tool_msgs[i].id = calls_made[c].parent /\ ~tool_msgs[i].error

\* C10: when the dispatch of one ToolCall of a turn raises, the ToolMessage
\* with that call's id, and no other, gets the error flag and carries the
\* exception's description; every ToolCall of the turn is dispatched in order
\* and the loop goes on to resubmit: the i-th ToolMessage is error-flagged if
\* and only if the i-th dispatch raised.
C10_ErrorFlagPerDispatch ==
    /\ pc \in {"for", "handle", "call", "record", "resubmit"} =>
        \A i \in DOMAIN tool_msgs :
          /\ i <= Len(dispatched)
          /\ dispatched[i].id = msg.tool_calls[i].id
          /\ tool_msgs[i].id = msg.tool_calls[i].id
          /\ tool_msgs[i].error <=> dispatched[i].raised
          /\ dispatched[i].raised =>
                json_loads(tool_msgs[i].content) = ErrorStr(dispatched[i].desc)
    /\ pc = "resubmit" =>
          /\ Len(tool_msgs) = Len(msg.tool_calls)
          /\ Len(dispatched) = Len(msg.tool_calls)

C10_Witness ==
    /\ pc = "resubmit"
    /\ Len(msg.tool_calls) = 2
    /\ dispatched[1].raised
    /\ ~dispatched[2].raised
    /\ Contains(dispatched[1].desc, <<Quote>>)

\* C11: when a bridge or backend call made inside a meta-tool raises during a
\* dispatch, the error is not caught: it leaves generate_next_message and no
\* error-flagged ToolMessage is made of it.
C11_BridgeErrorPropagates ==
    \A i \in DOMAIN dispatched :
        dispatched[i].cause = "bridge" =>
            /\ pc \notin {"record", "for", "resubmit", "loop"}
            /\ ~\E m \in HeldToolMessages : m.id = dispatched[i].id /\ m.error

\* C12: a bridge call binds the instance's loop as the thread's current loop
\* while it runs, and when it ends the thread's binding is what it was before
\* the call, whether that was none or another instance's loop.
C12_BindingRestored ==
    /\ \A a \in Agents :
          agent[a].bridge \in {"connect", "dispatch"} =>
              event_loop[agent[a].thread] = agent[a].loop
    /\ bridge_ended # NoBridge => bridge_ended.after = bridge_ended.prior

\* C13: tearing an instance down any number of times, connected or not,
\* dispatched or not, never raises and closes its event loop once: close is
\* called at most once and the loop is closed from the first teardown on.
C13_ClosedOnce ==
    /\ ~del_raised
    /\ \A a \in Agents :
          agent[a].made =>
              /\ loops[agent[a].loop].closes <= 1
              /\ agent[a].dels >= 1 =>
                    (loops[agent[a].loop].closed /\ loops[agent[a].loop].closes = 1)
              /\ agent[a].dels = 0 => ~loops[agent[a].loop].closed

C13_Witness ==
    /\ agent["A"].made /\ agent["A"].dels >= 2 /\ agent["A"].call = <<>>
    /\ agent["B"].made /\ agent["B"].dels >= 2 /\ agent["B"].call # <<>>
    /\ loops[agent["A"].loop].closes = 1
    /\ loops[agent["B"].loop].closes = 1

\* the instance whose wrapper made the pair or message with this id
OwnerOf(id) == IF id[1] = "uuid" THEN trace_owner[id[2]] ELSE "model"

\* C14: two instances share no event loop, no trace buffer and no store: a
\* traced call made during a dispatch of one is recorded in that one's buffer
\* and store only, and tearing one down leaves the other's loop open.
C14_NothingShared ==
    /\ \A a, b \in Agents :
          (a # b /\ agent[a].made /\ agent[b].made) =>
              /\ agent[a].loop # agent[b].loop
              /\ agent[a].callbacks # agent[b].callbacks
              /\ agent[a].messages # agent[b].messages
              /\ agent[a].callbacks # agent[b].messages
              /\ (agent[a].dels >= 1 /\ agent[b].dels = 0) =>
                    ~loops[agent[b].loop].closed
    /\ \A a \in Agents :
          agent[a].made =>
              /\ agent[a].callbacks # agent[a].messages
              /\ \A i \in DOMAIN lists[agent[a].callbacks] :
                    OwnerOf(lists[agent[a].callbacks][i][1].id) = a
              /\ \A i \in DOMAIN lists[agent[a].messages] :
                    LET e == lists[agent[a].messages][i] IN
                    (e.kind = "ToolMessage" /\ e.id[1] = "uuid") => OwnerOf(e.id) = a
    /\ \A n \in DOMAIN trace_owner :
          \A a \in Agents :
              (agent[a].made /\ a # trace_owner[n]) =>
                  /\ ~\E i \in DOMAIN lists[agent[a].callbacks] :
                        lists[agent[a].callbacks][i][1].id = <<"uuid", n>>
                  /\ ~\E i \in DOMAIN lists[agent[a].messages] :
                        /\ lists[agent[a].messages][i].kind = "ToolMessage"
                        /\ lists[agent[a].messages][i].id = <<"uuid", n>>

C14_Witness ==
    /\ agent["A"].bridge = "dispatch"
    /\ agent["B"].bridge = "dispatch"
    /\ agent["A"].thread # agent["B"].thread
    /\ lists[agent["A"].callbacks] # <<>>
    /\ lists[agent["B"].callbacks] # <<>>

C16_ReturnsOnlyOnTerminalReply ==
    /\ [][ /\ (pc # "idle" /\ pc' = "idle") =>
                 (pc = "loop" /\ ~is_tool_call(msg) /\ returned' = msg /\ msg' = msg)
           /\ (pc = "loop" /\ is_tool_call(msg) /\ pc' # pc) =>
                 (pc' = "for" /\ iteration' = iteration + 1)
         ]_vars
    /\ (pc = "loop" /\ ~is_tool_call(msg)) ~> (pc = "idle" /\ returned = msg)
    /\ (pc \notin {"idle", "raised"}) ~> (pc \in {"idle", "raised"})

C16_Witness ==
    /\ pc = "idle"
    /\ iteration = 2
    /\ returned = msg
    /\ ~is_tool_call(msg)

\* C17: every call of a traced domain function appends exactly one pair to the
\* trace buffer, whether the function returns or raises; the pair's ToolCall and
\* ToolMessage share an id no earlier pair has, the ToolCall has the function's
\* name and the call's keyword arguments, and when the function returns the
\* wrapper returns the function's value.
C17_TracedCallAppendsOnePair ==
    [][ nextUuid' # nextUuid =>
          LET n == Len(current_execute_callbacks)
              p == current_execute_callbacks'[n + 1]
              c == calls_made'[Len(calls_made')]
          IN  /\ Len(calls_made') = Len(calls_made) + 1
              /\ Len(current_execute_callbacks') = n + 1
              /\ SubSeq(current_execute_callbacks', 1, n) = current_execute_callbacks
              /\ p[1].id = p[2].id
              /\ p[1].id = c.id
              /\ \A i \in DOMAIN calls_made : calls_made[i].id # p[1].id
              /\ \A i \in 1..n : current_execute_callbacks[i][1].id # p[1].id
              /\ \A q \in ToolPositions : internal_messages[q].id # p[1].id
              /\ p[1].name = c.fn
              /\ p[1].arguments = c.kwargs
              /\ p[2].error = c.fn_raised
              /\ ~c.raised
              /\ ~c.fn_raised => c.result = c.value
      ]_vars

C17_Witness ==
    /\ Len(current_execute_callbacks) = 2
    /\ Len(calls_made) = 2
    /\ calls_made[1].fn_raised
    /\ ~calls_made[2].fn_raised
    /\ current_execute_callbacks[1][1].arguments # current_execute_callbacks[2][1].arguments
    /\ calls_made[2].result = FnValue(calls_made[2].fn, calls_made[2].kwargs)

\* the store only grows at its end, by the 1 + k + n entries of an iteration
StoreAppendOnly ==
    [][ /\ Len(internal_messages') >= Len(internal_messages)
        /\ SubSeq(internal_messages', 1, Len(internal_messages)) = internal_messages
        /\ internal_messages' # internal_messages =>
              Len(internal_messages') =
                  Len(internal_messages) + 1 + Len(tool_msgs) + Len(execute_tool_msgs)
      ]_vars

\* C18: the store is append-only, an iteration adding its 1 + k + n entries at
\* the end, and a value got from get_internal_messages still equals the store's
\* content of that moment after later turns have run.
C18_AppendOnlySnapshot ==
    /\ StoreAppendOnly
    /\ [](obtained = "alias" => HeldValue = taken)

\* C19: dispatches run one after the other, each started when the ones before
\* it have finished; the base mechanism is called again only when all k have
\* finished and the expanded assistant message and all k + n ToolMessages of
\* the turn are in the store, so they are still there when that call raises.
C19_TurnStoredBeforeResubmit ==
    /\ [][ (nextReply' # nextReply /\ pc # "idle") => pc = "resubmit" ]_vars
    /\ [](pc \in {"handle", "call"} =>
            /\ Len(dispatched) = idx
            /\ Len(tool_msgs) = idx - 1)
    /\ [](pc \in {"resubmit", "raised"} =>
            LET k == Len(msg.tool_calls) IN
            /\ Len(dispatched) = k
            /\ Len(tool_msgs) = k
            /\ Len(execute_tool_msgs) = Len(TracedUpTo(k))
            /\ TurnEntries = (<<expanded_assistant_msg>> \o tool_msgs) \o execute_tool_msgs
            /\ Len(TurnEntries) = 1 + k + Len(TracedUpTo(k))
            /\ \A j \in DOMAIN TurnEntries[1].tool_calls :
                  Cardinality({q \in 2..Len(TurnEntries) :
                      TurnEntries[q].id = TurnEntries[1].tool_calls[j].id}) = 1)

C19_Witness ==
    /\ pc = "raised"
    /\ Len(dispatched) = 2
    /\ Len(execute_tool_msgs) >= 1
    /\ Len(TurnEntries) >= 4

\* C20: expanding a turn leaves the model's reply as it was: the assistant
\* message the base mechanism's state holds lists its k ToolCalls, those that
\* were dispatched, in order, and no nested call, while the stored expanded
\* message has the reply's content and all k + n calls.
C20_OriginalReplyUnchanged ==
    /\ pc \in {"for", "handle", "call", "record", "resubmit", "raised"} =>
          LET orig == state[Len(state)] IN
          /\ orig.kind = "AssistantMessage"
          /\ orig = msg
          /\ \A i \in DOMAIN orig.tool_calls :
                /\ orig.tool_calls[i].id[1] = "call"
                /\ \A c \in DOMAIN calls_made : calls_made[c].id # orig.tool_calls[i].id
          /\ \A i \in DOMAIN dispatched : orig.tool_calls[i].id = dispatched[i].id
    /\ pc \in {"resubmit", "raised"} =>
          LET orig   == state[Len(state)]
              stored == internal_messages[turnStart + 1]
              k      == Len(dispatched)
          IN  /\ Len(orig.tool_calls) = k
              /\ stored.kind = "AssistantMessage"
              /\ stored.content = orig.content
              /\ Len(stored.tool_calls) = k + Len(TracedUpTo(k))
              /\ Ids(stored.tool_calls) = ExpectedIds(k)

C20_Witness ==
    /\ pc = "resubmit"
    /\ Len(msg.tool_calls) = 2
    /\ Len(execute_tool_msgs) >= 1
    /\ Len(internal_messages[turnStart + 1].tool_calls) > Len(state[Len(state)].tool_calls)

====
